---- MODULE Spec2Model ----
(***************************************************************************)
(* Model of query_chat_history_server.py: the bearer-token gate            *)
(* (validate_token), the parameterised query built by query_chat_history,  *)
(* its execution inside a connection/cursor pair, and the snippet          *)
(* extraction applied to every returned row.                               *)
(*                                                                         *)
(* Python strings are sequences of one-character strings.  An Optional     *)
(* value is None (the empty tuple) or Some(v) (a one-element tuple).       *)
(***************************************************************************)
EXTENDS Integers, Sequences, FiniteSets, TLC

\* ------------------------------------------------------------------ bounds
MaxLen == 5
MaxTermLen == 2
MaxRadius == 4

\* ----------------------------------------------------------- basic values
None == <<>>
Some(v) == <<v>>
IsNone(x) == x = <<>>
Val(x) == x[1]

Alphabet == {"a", "A", "b"}

SeqsUpTo(S, n) == UNION {[1..k -> S] : k \in 0..n}

MinOf(S) == CHOOSE x \in S : \A y \in S : x <= y
Max2(a, b) == IF a >= b THEN a ELSE b
Min2(a, b) == IF a <= b THEN a ELSE b

\* re.IGNORECASE / ILIKE: case folding of one character
FoldChar(c) == IF c = "A" THEN "a" ELSE IF c = "P" THEN "p" ELSE c
Fold(s) == [i \in 1..Len(s) |-> FoldChar(s[i])]

\* content[start:end] for 0 <= start <= end <= len(content)
Slice(s, start, end) == SubSeq(s, start + 1, end)

Ellipsis == <<".", ".", ".">>

\* re.search(re.escape(search_term), content, re.IGNORECASE): the 0-based
\* start of the leftmost occurrence, or -1 when there is no match object
re_search(search_term, content) ==
    LET hits == {i \in 0..(Len(content) - Len(search_term)) :
                    Fold(Slice(content, i, i + Len(search_term))) = Fold(search_term)}
    IN IF hits = {} THEN -1 ELSE MinOf(hits)

\* mutant: the window takes the full radius on each side
SnippetFullRadius(content, search_term, context_radius) ==
    IF Len(content) <= context_radius
    THEN [content |-> content, truncated |-> FALSE]
    ELSE LET ms == re_search(search_term, content)
             me == ms + Len(search_term)
         IN IF ms # -1
            THEN LET start == Max2(0, ms - context_radius)
                     end == Min2(Len(content), me + context_radius)
                     pre == IF start > 0 THEN Ellipsis ELSE <<>>
                     post == IF end < Len(content) THEN Ellipsis ELSE <<>>
                 IN [content |-> pre \o Slice(content, start, end) \o post,
                     truncated |-> TRUE]
            ELSE [content |-> Slice(content, 0, Min2(Len(content), context_radius))
                                \o (IF Len(content) > context_radius THEN Ellipsis ELSE <<>>),
                  truncated |-> TRUE]

\* mutant: the fallback forgets the ellipsis marker
SnippetNoMarker(content, search_term, context_radius) ==
    IF Len(content) <= context_radius
    THEN [content |-> content, truncated |-> FALSE]
    ELSE LET ms == re_search(search_term, content)
             me == ms + Len(search_term)
         IN IF ms # -1
            THEN LET start == Max2(0, ms - context_radius \div 2)
                     end == Min2(Len(content), me + context_radius \div 2)
                     pre == IF start > 0 THEN Ellipsis ELSE <<>>
                     post == IF end < Len(content) THEN Ellipsis ELSE <<>>
                 IN [content |-> pre \o Slice(content, start, end) \o post,
                     truncated |-> TRUE]
            ELSE [content |-> Slice(content, 0, Min2(Len(content), context_radius)),
                  truncated |-> TRUE]

\* the body of the loop over rows: (content, truncated) of one ChatEntry
Snippet(content, search_term, context_radius) ==
    IF Len(content) <= context_radius
    THEN [content |-> content, truncated |-> FALSE]
    ELSE LET ms == re_search(search_term, content)
             me == ms + Len(search_term)
         IN IF ms # -1
            THEN LET start == Max2(0, ms - context_radius \div 2)
                     end == Min2(Len(content), me + context_radius \div 2)
                     pre == IF start > 0 THEN Ellipsis ELSE <<>>
                     post == IF end < Len(content) THEN Ellipsis ELSE <<>>
                 IN [content |-> pre \o Slice(content, start, end) \o post,
                     truncated |-> TRUE]
            ELSE [content |-> Slice(content, 0, Min2(Len(content), context_radius))
                                \o (IF Len(content) > context_radius THEN Ellipsis ELSE <<>>),
                  truncated |-> TRUE]

\* ------------------------------------------------------- process constants
\* line 119: the single allow-listed identity
ALLOWED_LOGIN == "VBWizard"
\* line 106: the delegated-token prefix marker
GHO_PREFIX == <<"g", "h", "o", "_">>

\* values AUTH_TOKEN may be configured with (os.environ["AUTH_TOKEN"])
Secrets == {<<"s", "3">>, <<"g", "h", "o", "_", "s">>}

\* credentials a caller may present
Tokens == Secrets \cup {<<>>, <<"x">>, <<"g", "h", "o">>, <<"g", "h", "o", "_", "1">>}

\* answers of GET https://api.github.com/user: an exception raised by
\* requests.get (provider unreachable), or a response with its status code
\* and the "login" member of its JSON body (None when absent)
ProviderAnswers ==
    {[kind |-> "exception", status_code |-> 0, login |-> None],
     [kind |-> "response", status_code |-> 401, login |-> None],
     [kind |-> "response", status_code |-> 200, login |-> None],
     [kind |-> "response", status_code |-> 200, login |-> Some("octocat")],
     [kind |-> "response", status_code |-> 200, login |-> Some(ALLOWED_LOGIN)]}

\* str(e) of the exceptions the driver raises from execute / fetchall
DriverErrors == {"OperationalError: server closed the connection unexpectedly"}
SyntaxError == "ProgrammingError: syntax error in query"
\* body of the framework's answer to an exception no handler catches
UnhandledDetail == "Internal Server Error"

TOOL == <<"t", "o", "o", "l">>
USER == <<"u", "s", "e", "r">>
ASSISTANT == <<"a", "s", "s", "i", "s", "t", "a", "n", "t">>

\* the stored archive: messages joined with their conversation's title
Messages ==
    {[timestamp |-> 4, author_role |-> USER, title |-> Some(<<"P", "a">>),
      content |-> <<"b", "b", "A", "b", "b">>],
     [timestamp |-> 3, author_role |-> TOOL, title |-> Some(<<"P", "a">>),
      content |-> <<"a", "b">>],
     [timestamp |-> 2, author_role |-> ASSISTANT, title |-> None,
      content |-> <<"b", "b", "b", "a">>],
     [timestamp |-> 1, author_role |-> TOOL, title |-> Some(<<"b">>),
      content |-> <<"b", "a", "b", "b", "b">>]}

\* ChatHistoryQuery values a caller may send
Queries ==
    [search_term : {<<>>, <<"a">>, <<"_">>, <<"A", "b">>},
     author_role : {None, Some(<<>>), Some(USER), Some(TOOL)},
     conversation_title : {None, Some(<<>>), Some(<<"p">>)},
     limit : {None, Some(1)},
     context_radius : {2, 4}]

\* ----------------------------------------------------------- validate_token
StartsWith(s, prefix) ==
    Len(s) >= Len(prefix) /\ SubSeq(s, 1, Len(prefix)) = prefix

Authorized == [ok |-> TRUE, status |-> 0, detail |-> "", calls |-> 0]
Raise(status, detail, calls) ==
    [ok |-> FALSE, status |-> status, detail |-> detail, calls |-> calls]

\* mutant: the prefix is sniffed before the static secret is compared
validate_token_prefix_first(tok, secret, answer) ==
    IF StartsWith(tok, GHO_PREFIX)
    THEN IF answer.kind = "exception"
         THEN Raise(500, UnhandledDetail, 1)
         ELSE IF answer.status_code # 200
         THEN Raise(401, "Invalid GitHub token", 1)
         ELSE IF answer.login # Some(ALLOWED_LOGIN)
         THEN Raise(403, "Unauthorized GitHub user", 1)
         ELSE [Authorized EXCEPT !.calls = 1]
    ELSE IF tok = secret
    THEN Authorized
    ELSE Raise(401, "Unauthorized token format", 0)

\* mutant: a credential of unrecognized shape falls through to the return
validate_token_fallthrough(tok, secret, answer) ==
    IF tok = secret
    THEN Authorized
    ELSE IF StartsWith(tok, GHO_PREFIX)
    THEN IF answer.kind = "exception"
         THEN Raise(500, UnhandledDetail, 1)
         ELSE IF answer.status_code # 200
         THEN Raise(401, "Invalid GitHub token", 1)
         ELSE IF answer.login # Some(ALLOWED_LOGIN)
         THEN Raise(403, "Unauthorized GitHub user", 1)
         ELSE [Authorized EXCEPT !.calls = 1]
    ELSE Authorized

\* mutant: the allow-list check is skipped when the answer has no login
validate_token_no_login_ok(tok, secret, answer) ==
    IF tok = secret
    THEN Authorized
    ELSE IF StartsWith(tok, GHO_PREFIX)
    THEN IF answer.kind = "exception"
         THEN Raise(500, UnhandledDetail, 1)
         ELSE IF answer.status_code # 200
         THEN Raise(401, "Invalid GitHub token", 1)
         ELSE IF ~IsNone(answer.login) /\ answer.login # Some(ALLOWED_LOGIN)
         THEN Raise(403, "Unauthorized GitHub user", 1)
         ELSE [Authorized EXCEPT !.calls = 1]
    ELSE Raise(401, "Unauthorized token format", 0)

\* validate_token: the outcome for credential tok when AUTH_TOKEN = secret and
\* the identity provider would give `answer`; calls = outbound calls made
validate_token(tok, secret, answer) ==
    IF tok = secret
    THEN Authorized
    ELSE IF StartsWith(tok, GHO_PREFIX)
    THEN IF answer.kind = "exception"
         THEN Raise(500, UnhandledDetail, 1)
         ELSE IF answer.status_code # 200
         THEN Raise(401, "Invalid GitHub token", 1)
         ELSE IF answer.login # Some(ALLOWED_LOGIN)
         THEN Raise(403, "Unauthorized GitHub user", 1)
         ELSE [Authorized EXCEPT !.calls = 1]
    ELSE Raise(401, "Unauthorized token format", 0)

\* ------------------------------------------------------------ query building
\* Python truthiness of an Optional[str]: neither None nor ""
Truthy(opt) == ~IsNone(opt) /\ Val(opt) # <<>>

StrParam(s) == [kind |-> "str", s |-> s, n |-> 0]
IntParam(n) == [kind |-> "int", s |-> <<>>, n |-> n]
NullParam == [kind |-> "null", s |-> <<>>, n |-> 0]

\* f"%{value}%"
Wrap(value) == <<"%">> \o value \o <<"%">>

\* mutant: the standing tool exclusion is left out
ConditionsNoToolFilter(q) ==
    <<"m.content ILIKE %s">>
    \o (IF Truthy(q.author_role) THEN <<"m.author_role = %s">> ELSE <<>>)
    \o (IF Truthy(q.conversation_title) THEN <<"c.title ILIKE %s">> ELSE <<>>)

\* mutant: the requested role is written into the condition text
ConditionsInterpolated(q) ==
    <<"m.content ILIKE %s", "m.author_role != 'tool'">>
    \o (IF Truthy(q.author_role)
        THEN IF Val(q.author_role) = TOOL
             THEN <<"m.author_role = 'tool'">>
             ELSE <<"m.author_role = 'user'">>
        ELSE <<>>)
    \o (IF Truthy(q.conversation_title) THEN <<"c.title ILIKE %s">> ELSE <<>>)

\* the `conditions` list of query_chat_history
Conditions(q) ==
    <<"m.content ILIKE %s", "m.author_role != 'tool'">>
    \o (IF Truthy(q.author_role) THEN <<"m.author_role = %s">> ELSE <<>>)
    \o (IF Truthy(q.conversation_title) THEN <<"c.title ILIKE %s">> ELSE <<>>)

\* the `params` list of query_chat_history
Params(q) ==
    <<StrParam(Wrap(q.search_term))>>
    \o (IF Truthy(q.author_role) THEN <<StrParam(Val(q.author_role))>> ELSE <<>>)
    \o (IF Truthy(q.conversation_title)
        THEN <<StrParam(Wrap(Val(q.conversation_title)))>> ELSE <<>>)
    \o <<IF IsNone(q.limit) THEN NullParam ELSE IntParam(Val(q.limit))>>

\* ' AND '.join(conditions)
RECURSIVE JoinAnd(_)
JoinAnd(conds) ==
    IF Len(conds) <= 1 THEN conds
    ELSE <<Head(conds), "AND">> \o JoinAnd(Tail(conds))

SqlHead ==
    <<"SELECT m.timestamp, m.author_role, c.title, m.content",
      "FROM messages m",
      "JOIN conversations c ON m.conversation_id = c.id",
      "WHERE">>
SqlTail == <<"ORDER BY m.timestamp DESC", "LIMIT %s">>

\* the f-string `sql`, as its sequence of fragments
SqlText(conds) == SqlHead \o JoinAnd(conds) \o SqlTail

\* ------------------------------------------------- the storage collaborator
\* value ILIKE pattern: % matches any run, _ any one character, the rest
\* compares case-insensitively
RECURSIVE Like(_, _)
Like(pattern, text) ==
    IF pattern = <<>> THEN text = <<>>
    ELSE IF Head(pattern) = "%"
    THEN Like(Tail(pattern), text) \/ (text # <<>> /\ Like(pattern, Tail(text)))
    ELSE /\ text # <<>>
         /\ (Head(pattern) = "_" \/ FoldChar(Head(pattern)) = FoldChar(Head(text)))
         /\ Like(Tail(pattern), Tail(text))

Placeholders == {"m.content ILIKE %s", "m.author_role = %s", "c.title ILIKE %s"}
KnownConditions ==
    Placeholders \cup {"m.author_role != 'tool'", "m.author_role = 'tool'",
                      "m.author_role = 'user'"}

\* the conditions of a query text, in order
WhereOf(text) ==
    SelectSeq(SubSeq(text, Len(SqlHead) + 1, Len(text) - Len(SqlTail)),
              LAMBDA f : f # "AND")

\* the bound parameter the i-th condition's placeholder takes
ParamFor(conds, bound, i) ==
    bound[Cardinality({j \in 1..i : conds[j] \in Placeholders})]

\* the server accepts the statement: known conditions, one bound value per
\* placeholder, a limit that is null or a number
Accepts(text, bound) ==
    LET conds == WhereOf(text)
    IN /\ \A i \in 1..Len(conds) : conds[i] \in KnownConditions
       /\ Len(bound) = Cardinality({j \in 1..Len(conds) : conds[j] \in Placeholders}) + 1
       /\ bound[Len(bound)].kind \in {"int", "null"}
       /\ \A i \in 1..(Len(bound) - 1) : bound[i].kind = "str"

EvalCondition(c, p, row) ==
    CASE c = "m.content ILIKE %s" -> Like(p.s, row.content)
      [] c = "m.author_role != 'tool'" -> row.author_role # TOOL
      [] c = "m.author_role = 'tool'" -> row.author_role = TOOL
      [] c = "m.author_role = 'user'" -> row.author_role = USER
      [] c = "m.author_role = %s" -> row.author_role = p.s
      [] c = "c.title ILIKE %s" -> ~IsNone(row.title) /\ Like(p.s, Val(row.title))
      [] OTHER -> FALSE

\* the rows the statement selects: every condition holds, newest first, at
\* most LIMIT of them (timestamps of the archive are distinct)
StorageRows(text, bound) ==
    LET conds == WhereOf(text)
        hit == {m \in Messages :
                  \A i \in 1..Len(conds) :
                     EvalCondition(conds[i], ParamFor(conds, bound, i), m)}
        lim == bound[Len(bound)]
        n == IF lim.kind = "null" THEN Cardinality(hit)
             ELSE Min2(lim.n, Cardinality(hit))
    IN [k \in 1..n |->
          CHOOSE m \in hit :
             Cardinality({x \in hit : x.timestamp > m.timestamp}) = k - 1]

\* one ChatEntry per row
Entry(row, q) ==
    LET sn == Snippet(row.content, q.search_term, q.context_radius)
    IN [timestamp |-> row.timestamp, author |-> row.author_role,
        title |-> row.title, content |-> sn.content, truncated |-> sn.truncated]

\* ------------------------------------------------------------------- state
VARIABLES
    AUTH_TOKEN,     \* the configured static secret
    pc,             \* where the request being handled stands
    token,          \* credentials.credentials of the request
    query,          \* the ChatHistoryQuery of the request
    user_info,      \* the identity provider's answer, None while not asked
    providerCalls,  \* outbound calls to the identity provider in this request
    conn,           \* the request's connection: "none", "open", "closed"
    cur,            \* the request's cursor: "none", "open", "closed"
    sql,            \* the query text, None until built
    params,         \* the bound-parameter list
    executeCount,   \* calls of cur.execute in this request
    rows,           \* the fetched rows, None until fetchall returns
    exc,            \* the exception caught by `except Exception as e`
    results,        \* the ChatEntry list, None until built
    response,       \* what the caller gets: status, detail, body
    steps,          \* the steps this request has taken so far
    prev,           \* facets and query text of the previous request's query
    snip            \* one application of the snippet rule to a free input

vars == <<AUTH_TOKEN, pc, token, query, user_info, providerCalls, conn, cur, sql,
          params, executeCount, rows, exc, results, response, steps, prev, snip>>

reqVars == <<token, query, user_info, providerCalls, conn, cur, sql, params,
             executeCount, rows, exc, results, response, steps>>

NoQuery == [search_term |-> <<>>, author_role |-> None,
            conversation_title |-> None, limit |-> None, context_radius |-> 1]
NoSnip == [content |-> <<>>, search_term |-> <<>>, context_radius |-> 1, out |-> None]

Idle ==
    /\ pc = "idle"
    /\ token = <<>>
    /\ query = NoQuery
    /\ user_info = None
    /\ providerCalls = 0
    /\ conn = "none"
    /\ cur = "none"
    /\ sql = None
    /\ params = <<>>
    /\ executeCount = 0
    /\ rows = None
    /\ exc = None
    /\ results = None
    /\ response = None
    /\ steps = <<>>
    /\ prev = None

Init ==
    /\ AUTH_TOKEN \in Secrets
    /\ Idle
    /\ snip = NoSnip

Reply(status, detail, body) == [status |-> status, detail |-> detail, body |-> body]

\* ----------------------------------------------------------------- actions
\* a request arrives: the transport hands query and credentials to the handler
Receive ==
    /\ pc = "idle"
    /\ \E t \in Tokens, q \in Queries :
          /\ token' = t
          /\ query' = q
    /\ pc' = "validate_token"
    /\ UNCHANGED <<AUTH_TOKEN, user_info, providerCalls, conn, cur, sql, params,
                   executeCount, rows, exc, results, response, steps, prev, snip>>

\* the response has been sent and the handler's locals are gone; the query
\* text it built is remembered for comparison with the next request's
Finish ==
    /\ pc = "done"
    /\ pc' = "idle"
    /\ prev' = IF IsNone(sql) THEN prev
               ELSE Some([author_role |-> query.author_role,
                          conversation_title |-> query.conversation_title,
                          sql |-> Val(sql)])
    /\ token' = <<>>
    /\ query' = NoQuery
    /\ user_info' = None
    /\ providerCalls' = 0
    /\ conn' = "none"
    /\ cur' = "none"
    /\ sql' = None
    /\ params' = <<>>
    /\ executeCount' = 0
    /\ rows' = None
    /\ exc' = None
    /\ results' = None
    /\ response' = None
    /\ steps' = <<>>
    /\ UNCHANGED <<AUTH_TOKEN, snip>>

\* mutant: a raised HTTPException does not stop the handler
ValidateTokenNoGate ==
    /\ pc = "validate_token"
    /\ \E answer \in ProviderAnswers :
          LET v == validate_token(token, AUTH_TOKEN, answer)
          IN /\ providerCalls' = providerCalls + v.calls
             /\ user_info' = IF v.calls > 0 THEN Some(answer) ELSE user_info
             /\ pc' = "connect"
             /\ response' = IF v.ok THEN response ELSE Some(Reply(v.status, v.detail, None))
    /\ steps' = Append(steps, "validate_token")
    /\ UNCHANGED <<AUTH_TOKEN, token, query, conn, cur, sql, params,
                   executeCount, rows, exc, results, prev, snip>>

\* line 131: user = validate_token(credentials)
ValidateToken ==
    /\ pc = "validate_token"
    /\ \E answer \in ProviderAnswers :
          LET v == validate_token(token, AUTH_TOKEN, answer)
          IN /\ providerCalls' = providerCalls + v.calls
             /\ user_info' = IF v.calls > 0 THEN Some(answer) ELSE user_info
             /\ pc' = IF v.ok THEN "connect" ELSE "done"
             /\ response' = IF v.ok THEN response ELSE Some(Reply(v.status, v.detail, None))
    /\ steps' = Append(steps, "validate_token")
    /\ UNCHANGED <<AUTH_TOKEN, token, query, conn, cur, sql, params,
                   executeCount, rows, exc, results, prev, snip>>

\* line 132: conn = get_db_connection()
GetDbConnection ==
    /\ pc = "connect"
    /\ conn' = "open"
    /\ pc' = "cursor"
    /\ steps' = Append(steps, "connect")
    /\ UNCHANGED <<AUTH_TOKEN, token, query, user_info, providerCalls, cur, sql, params,
                   executeCount, rows, exc, results, response, prev, snip>>

\* line 132: psycopg2.connect raises; nothing catches it
GetDbConnectionRaises ==
    /\ pc = "connect"
    /\ response' = Some(Reply(500, UnhandledDetail, None))
    /\ pc' = "done"
    /\ steps' = Append(steps, "connect")
    /\ UNCHANGED <<AUTH_TOKEN, token, query, user_info, providerCalls, conn, cur, sql,
                   params, executeCount, rows, exc, results, prev, snip>>

\* line 133: cur = conn.cursor()
Cursor ==
    /\ pc = "cursor"
    /\ cur' = "open"
    /\ pc' = "build"
    /\ UNCHANGED <<AUTH_TOKEN, token, query, user_info, providerCalls, conn, sql, params,
                   executeCount, rows, exc, results, response, steps, prev, snip>>

\* line 133: conn.cursor() raises, outside the try statement
CursorRaises ==
    /\ pc = "cursor"
    /\ response' = Some(Reply(500, UnhandledDetail, None))
    /\ pc' = "done"
    /\ UNCHANGED <<AUTH_TOKEN, token, query, user_info, providerCalls, conn, cur, sql,
                   params, executeCount, rows, exc, results, steps, prev, snip>>

\* lines 135-156: conditions, params and the query text
BuildQuery ==
    /\ pc = "build"
    /\ sql' = Some(SqlText(Conditions(query)))
    /\ params' = Params(query)
    /\ pc' = "execute"
    /\ steps' = Append(steps, "build")
    /\ UNCHANGED <<AUTH_TOKEN, token, query, user_info, providerCalls, conn, cur,
                   executeCount, rows, exc, results, response, prev, snip>>

\* line 159: cur.execute(sql, params) returns
Execute ==
    /\ pc = "execute"
    /\ Accepts(Val(sql), params)
    /\ executeCount' = executeCount + 1
    /\ pc' = "fetchall"
    /\ steps' = Append(steps, "execute")
    /\ UNCHANGED <<AUTH_TOKEN, token, query, user_info, providerCalls, conn, cur, sql,
                   params, rows, exc, results, response, prev, snip>>

\* line 159: cur.execute raises (the server refuses the statement, or the
\* connection fails); line 161 catches it
ExecuteRaises ==
    /\ pc = "execute"
    /\ executeCount' = executeCount + 1
    /\ \E e \in DriverErrors \cup {SyntaxError} :
          /\ (e = SyntaxError) <=> ~Accepts(Val(sql), params)
          /\ exc' = Some(e)
    /\ pc' = "finally"
    /\ steps' = Append(steps, "execute")
    /\ UNCHANGED <<AUTH_TOKEN, token, query, user_info, providerCalls, conn, cur, sql,
                   params, rows, results, response, prev, snip>>

\* line 160: rows = cur.fetchall()
Fetchall ==
    /\ pc = "fetchall"
    /\ rows' = Some(StorageRows(Val(sql), params))
    /\ pc' = "finally"
    /\ steps' = Append(steps, "fetchall")
    /\ UNCHANGED <<AUTH_TOKEN, token, query, user_info, providerCalls, conn, cur, sql,
                   params, executeCount, exc, results, response, prev, snip>>

\* line 160: cur.fetchall() raises; line 161 catches it
FetchallRaises ==
    /\ pc = "fetchall"
    /\ \E e \in DriverErrors : exc' = Some(e)
    /\ pc' = "finally"
    /\ steps' = Append(steps, "fetchall")
    /\ UNCHANGED <<AUTH_TOKEN, token, query, user_info, providerCalls, conn, cur, sql,
                   params, executeCount, rows, results, response, prev, snip>>

\* lines 161-166: the except clause (if an exception was caught) and the
\* finally clause; the HTTPException leaves the handler after the finally
Finally ==
    /\ pc = "finally"
    /\ cur' = "closed"
    /\ conn' = "closed"
    /\ IF IsNone(exc)
       THEN /\ pc' = "extract"
            /\ UNCHANGED response
       ELSE /\ pc' = "done"
            /\ response' = Some(Reply(500, Val(exc), None))
    /\ steps' = Append(steps, "release")
    /\ UNCHANGED <<AUTH_TOKEN, token, query, user_info, providerCalls, sql, params,
                   executeCount, rows, exc, results, prev, snip>>

\* lines 168-206: the loop over rows
Extract ==
    /\ pc = "extract"
    /\ results' = Some([i \in 1..Len(Val(rows)) |-> Entry(Val(rows)[i], query)])
    /\ pc' = "return"
    /\ steps' = Append(steps, "extract")
    /\ UNCHANGED <<AUTH_TOKEN, token, query, user_info, providerCalls, conn, cur, sql,
                   params, executeCount, rows, exc, response, prev, snip>>

\* line 208: return results
Return ==
    /\ pc = "return"
    /\ response' = Some(Reply(200, "", results))
    /\ pc' = "done"
    /\ steps' = Append(steps, "respond")
    /\ UNCHANGED <<AUTH_TOKEN, token, query, user_info, providerCalls, conn, cur, sql,
                   params, executeCount, rows, exc, results, prev, snip>>

Next ==
    \/ Receive
    \/ Finish
    \/ ValidateToken
    \/ GetDbConnection
    \/ GetDbConnectionRaises
    \/ Cursor
    \/ CursorRaises
    \/ BuildQuery
    \/ Execute
    \/ ExecuteRaises
    \/ Fetchall
    \/ FetchallRaises
    \/ Finally
    \/ Extract
    \/ Return

Spec == Init /\ [][Next]_vars

\* ------------------------------------------- the snippet rule on free inputs
SnippetInit ==
    /\ AUTH_TOKEN = <<"s", "3">>
    /\ Idle
    /\ \E c \in SeqsUpTo(Alphabet, MaxLen), t \in SeqsUpTo(Alphabet, MaxTermLen),
          r \in 1..MaxRadius :
          snip = [content |-> c, search_term |-> t, context_radius |-> r, out |-> None]

\* lines 170-206 applied to one row body
ExtractSnippet ==
    /\ IsNone(snip.out)
    /\ snip' = [snip EXCEPT !.out =
                   Some(Snippet(snip.content, snip.search_term, snip.context_radius))]
    /\ UNCHANGED <<AUTH_TOKEN, pc, prev>>
    /\ UNCHANGED reqVars

SnippetNext == ExtractSnippet

SnippetSpec == SnippetInit /\ [][SnippetNext]_vars

\* ================================================================ properties
\* search_term occurs in content as a case-insensitive literal substring
Occurs(term, content) ==
    \E i \in 0..(Len(content) - Len(term)) :
        Fold(Slice(content, i, i + Len(term))) = Fold(term)

\* the 0-based start of the first such occurrence
FirstOccurrence(term, content) ==
    MinOf({i \in 0..(Len(content) - Len(term)) :
              Fold(Slice(content, i, i + Len(term))) = Fold(term)})

\* piece occurs in text, character for character
Contains(text, piece) ==
    \E i \in 0..(Len(text) - Len(piece)) : Slice(text, i, i + Len(piece)) = piece

\* the snippet rule has been applied to a long body holding the term
SnipMatched ==
    /\ ~IsNone(snip.out)
    /\ snip.search_term # <<>>
    /\ Len(snip.content) > snip.context_radius
    /\ Occurs(snip.search_term, snip.content)

SnipSpan ==
    LET ms == FirstOccurrence(snip.search_term, snip.content)
    IN Slice(snip.content, ms, ms + Len(snip.search_term))

\* C1 as stated: for a body longer than context_radius that holds the
\* non-empty search_term, the snippet contains the span of the first
\* occurrence, is at most context_radius + 6 characters long, and is
\* flagged truncated.
C1_Original ==
    SnipMatched =>
        /\ Contains(Val(snip.out).content, SnipSpan)
        /\ Len(Val(snip.out).content) <= snip.context_radius + 2 * Len(Ellipsis)
        /\ Val(snip.out).truncated = TRUE

\* C1 amended: for a body longer than context_radius that holds the
\* non-empty search_term, the snippet contains the span of the first
\* occurrence, is at most len(search_term) + context_radius + 6 characters
\* long (the half-windows are added on both sides of the match span), and is
\* flagged truncated.
C1_Amended ==
    SnipMatched =>
        /\ Contains(Val(snip.out).content, SnipSpan)
        /\ Len(Val(snip.out).content)
              <= Len(snip.search_term) + snip.context_radius + 2 * Len(Ellipsis)
        /\ Val(snip.out).truncated = TRUE

\* a matched snippet that reaches the amended bound and exceeds the stated one
C1_Witness ==
    /\ SnipMatched
    /\ Len(Val(snip.out).content)
          = Len(snip.search_term) + snip.context_radius + 2 * Len(Ellipsis)
    /\ Val(snip.out).truncated = TRUE

\* C9: for a body longer than context_radius in which search_term does not
\* occur, the content is the first context_radius characters followed by
\* "..." and truncated is true; an entry is produced, not an error.
C9_Fallback ==
    (/\ ~IsNone(snip.out)
     /\ Len(snip.content) > snip.context_radius
     /\ ~Occurs(snip.search_term, snip.content))
    => /\ Val(snip.out).content
            = SubSeq(snip.content, 1, snip.context_radius) \o Ellipsis
       /\ Val(snip.out).truncated = TRUE

C9_Witness ==
    /\ ~IsNone(snip.out)
    /\ Len(snip.content) > snip.context_radius + 1
    /\ snip.search_term # <<>>
    /\ ~Occurs(snip.search_term, snip.content)
    /\ Val(snip.out).truncated = TRUE
    /\ Len(Val(snip.out).content) = snip.context_radius + Len(Ellipsis)

\* C2: no entry of any result list has author "tool"; a request that asks
\* for author_role = "tool" gets the empty list.
C2_NoToolRows ==
    ~IsNone(results) =>
        /\ \A i \in 1..Len(Val(results)) : Val(results)[i].author # TOOL
        /\ (query.author_role = Some(TOOL) => Val(results) = <<>>)

\* a request for the tool role whose term does match stored tool messages
C2_Witness ==
    /\ ~IsNone(results)
    /\ query.author_role = Some(TOOL)
    /\ \E m \in Messages :
          m.author_role = TOOL /\ Occurs(query.search_term, m.content)
    /\ Val(results) = <<>>
    /\ pc = "done"

\* the fragments a query text may consist of: none carries a caller's value
FixedFragments ==
    {SqlHead[i] : i \in 1..Len(SqlHead)} \cup {SqlTail[i] : i \in 1..Len(SqlTail)}
    \cup Placeholders \cup {"AND", "m.author_role != 'tool'"}

\* every caller value sits in params at the position of its placeholder, the
\* limit last
ParamsInPlaceholderOrder ==
    LET conds == WhereOf(Val(sql))
    IN /\ Len(params) = Cardinality({i \in 1..Len(conds) : conds[i] \in Placeholders}) + 1
       /\ \A i \in 1..Len(conds) :
            /\ conds[i] = "m.content ILIKE %s"
                 => ParamFor(conds, params, i) = StrParam(<<"%">> \o query.search_term \o <<"%">>)
            /\ conds[i] = "m.author_role = %s"
                 => ParamFor(conds, params, i) = StrParam(Val(query.author_role))
            /\ conds[i] = "c.title ILIKE %s"
                 => ParamFor(conds, params, i)
                      = StrParam(<<"%">> \o Val(query.conversation_title) \o <<"%">>)
       /\ params[Len(params)]
            = (IF IsNone(query.limit) THEN NullParam ELSE IntParam(Val(query.limit)))
       /\ conds[1] = "m.content ILIKE %s"
       /\ \A i, j \in 1..Len(conds) :
            (conds[i] = "m.author_role = %s" /\ conds[j] = "c.title ILIKE %s") => i < j

\* C3 as stated: two requests in which the same facets are supplied (not
\* null) get the identical query text, and every value is bound in
\* placeholder order.
C3_Original ==
    ~IsNone(sql) =>
        /\ \A i \in 1..Len(Val(sql)) : Val(sql)[i] \in FixedFragments
        /\ ParamsInPlaceholderOrder
        /\ (/\ ~IsNone(prev)
            /\ IsNone(Val(prev).author_role) = IsNone(query.author_role)
            /\ IsNone(Val(prev).conversation_title) = IsNone(query.conversation_title))
           => Val(prev).sql = Val(sql)

\* C3 amended: the query text depends only on which optional facets are
\* supplied and non-empty (an empty string counts as absent): two requests
\* with the same non-empty facets get the identical query text, which holds
\* no caller value, and every value is bound in placeholder order.
C3_Amended ==
    ~IsNone(sql) =>
        /\ \A i \in 1..Len(Val(sql)) : Val(sql)[i] \in FixedFragments
        /\ ParamsInPlaceholderOrder
        /\ (/\ ~IsNone(prev)
            /\ Truthy(Val(prev).author_role) = Truthy(query.author_role)
            /\ Truthy(Val(prev).conversation_title) = Truthy(query.conversation_title))
           => Val(prev).sql = Val(sql)

\* two consecutive requests with different roles and the same query text
C3_Witness ==
    /\ ~IsNone(sql)
    /\ ~IsNone(prev)
    /\ Val(prev).author_role = Some(USER)
    /\ query.author_role = Some(TOOL)
    /\ Truthy(Val(prev).conversation_title) = Truthy(query.conversation_title)
    /\ Val(prev).sql = Val(sql)
    /\ Len(params) >= 3

\* validate_token has returned or raised for the current request
Validated == Len(steps) >= 1
\* validate_token raised: the request ended at the gate
GateRaised == steps = <<"validate_token">> /\ pc = "done"

\* C4: a credential equal to the static secret is authorized whatever the
\* identity provider would answer and whatever its shape, and no outbound
\* call is made.
C4_StaticSecret ==
    (Validated /\ token = AUTH_TOKEN) =>
        /\ ~GateRaised
        /\ providerCalls = 0
        /\ IsNone(user_info)
        /\ (~IsNone(response) => Val(response).status \notin {401, 403})

\* the static secret has the delegated-token prefix and was let through
C4_Witness ==
    /\ token = AUTH_TOKEN
    /\ StartsWith(token, GHO_PREFIX)
    /\ pc = "connect"
    /\ providerCalls = 0

\* C5: a credential that is neither the static secret nor prefixed "gho_"
\* is rejected with 401, with no call to the identity provider and no
\* storage connection.
C5_Malformed ==
    (Validated /\ token # AUTH_TOKEN /\ ~StartsWith(token, GHO_PREFIX)) =>
        /\ GateRaised
        /\ response = Some(Reply(401, "Unauthorized token format", None))
        /\ providerCalls = 0
        /\ IsNone(user_info)
        /\ conn = "none"
        /\ cur = "none"

\* the empty credential was rejected
C5_Witness ==
    /\ token = <<>>
    /\ GateRaised
    /\ Val(response).status = 401

ProviderRejected ==
    ~IsNone(user_info) /\ Val(user_info).kind = "response" /\ Val(user_info).status_code # 200
ProviderAccepted ==
    ~IsNone(user_info) /\ Val(user_info).kind = "response" /\ Val(user_info).status_code = 200
IdentityAllowed == ProviderAccepted /\ Val(user_info).login = Some(ALLOWED_LOGIN)
Delegated == token # AUTH_TOKEN /\ StartsWith(token, GHO_PREFIX)

\* C6: a delegated token that is not the static secret costs exactly one
\* call to the identity provider in its request; rejection gives 401, an
\* accepted identity off the allow-list (or none) gives 403, an allow-listed
\* identity is authorized; the three rejection reasons stay distinguishable.
C6_Delegated ==
    /\ (Validated /\ Delegated) =>
          /\ providerCalls = 1
          /\ ~IsNone(user_info)
          /\ ProviderRejected => (GateRaised /\ Val(response).status = 401)
          /\ (ProviderAccepted /\ ~IdentityAllowed)
                => (GateRaised /\ Val(response).status = 403)
          /\ IdentityAllowed => ~GateRaised
    /\ (GateRaised /\ Val(response).status \in {401, 403}) =>
          /\ Val(response).detail = "Unauthorized token format"
                <=> (token # AUTH_TOKEN /\ ~StartsWith(token, GHO_PREFIX))
          /\ Val(response).detail = "Invalid GitHub token"
                <=> (Delegated /\ ProviderRejected)
          /\ Val(response).detail = "Unauthorized GitHub user"
                <=> (Delegated /\ ProviderAccepted /\ ~IdentityAllowed)

\* the provider accepted a token whose answer names no identity: 403
C6_Witness ==
    /\ Validated
    /\ Delegated
    /\ ProviderAccepted
    /\ IsNone(Val(user_info).login)
    /\ GateRaised
    /\ Val(response).status = 403
    /\ providerCalls = 1

\* C7: no request ends with a connection or cursor it opened still open.
C7_Released ==
    pc = "done" => (conn # "open" /\ cur # "open")

\* the storage collaborator failed in the current request
ConnectFailed ==
    pc = "done" /\ conn = "none" /\ Len(steps) >= 1 /\ steps[Len(steps)] = "connect"
StorageFailed == ~IsNone(exc) \/ ConnectFailed

\* C8: when the storage collaborator fails, the query was executed at most
\* once, there are no results, and the request ends with a 500 whose message
\* does not contain the driver exception's text.
C8_NonRevealing ==
    (pc = "done" /\ StorageFailed) =>
        /\ executeCount <= 1
        /\ IsNone(results)
        /\ Val(response).status = 500
        /\ Val(response).detail \notin (DriverErrors \cup {SyntaxError})

StepOrder ==
    <<"validate_token", "connect", "build", "execute", "fetchall", "release",
      "extract", "respond">>
Rank(step) == CHOOSE k \in 1..Len(StepOrder) : StepOrder[k] = step

\* the gate let the current request through
GateAuthorized ==
    /\ Validated
    /\ steps[1] = "validate_token"
    /\ (token = AUTH_TOKEN \/ (StartsWith(token, GHO_PREFIX) /\ IdentityAllowed))

\* C10: the steps of a request follow the fixed order, each at most once;
\* the storage is touched only by a request the gate has authorized, a
\* request answered 401 or 403 never touches it, the connection is released
\* before snippets are extracted, and extraction follows a successful query.
C10_Linear ==
    /\ \A i, j \in 1..Len(steps) : i < j => Rank(steps[i]) < Rank(steps[j])
    /\ (conn # "none" \/ cur # "none" \/ ~IsNone(sql) \/ executeCount > 0
          \/ (\E i \in 1..Len(steps) : steps[i] # "validate_token"))
         => GateAuthorized
    /\ (~IsNone(response) /\ Val(response).status \in {401, 403}) =>
          /\ conn = "none"
          /\ cur = "none"
          /\ executeCount = 0
          /\ IsNone(sql)
    /\ executeCount <= 1
    /\ ~IsNone(results) =>
          /\ ~IsNone(rows)
          /\ IsNone(exc)
          /\ executeCount = 1
          /\ conn = "closed"
          /\ cur = "closed"
    /\ (~IsNone(response) /\ Val(response).status = 200) => ~IsNone(results)

\* a request that went through every step of the pipeline
C10_Witness ==
    /\ pc = "done"
    /\ steps = StepOrder
    /\ Val(response).status = 200
    /\ Len(Val(results)) >= 1

====
